---- MODULE Spec2Model ----
(***************************************************************************)
(* A model of the retrieval-augmented answering pipeline of                *)
(* src/backend_rag.py: ingestion (upsert_chunks), retrieval (retrieve),    *)
(* context assembly (build_context), answering (ask_llm, answer) and       *)
(* sub-question generation (generate_sub_questions).                       *)
(*                                                                         *)
(* Strings are kept run-length encoded: a string is a sequence of runs     *)
(* [c |-> character, n |-> repetitions], so that the program's own         *)
(* constants (10000, 7000, 150) are used at their real size.               *)
(***************************************************************************)
EXTENDS Integers, Sequences, FiniteSets, TLC

VARIABLES
    clock,      \* time.time(): the epoch clock, in whole seconds
    tzOffset,   \* the host's local-time offset from UTC, in seconds
    index,      \* the vector index: id -> metadata of the record stored under it
    workload,   \* upsert_chunks: which batches each caller may submit
    call,       \* upsert_chunks: the frame of each caller's call
    requests,   \* upsert_chunks: the external requests each call has issued, in order
    PINECONE_NEW, \* which Pinecone SDK was imported
    sim,        \* the similarity score (in thousandths) of each stored vector to the query
    rag,        \* retrieve / answer: the frame of the call in progress
    bc,         \* build_context: the frame of a direct call
    sq,         \* generate_sub_questions: the frame of the call in progress
    ex,         \* extract_text_from_file: the frame of a call, with the file it is given
    ct          \* chunk_by_topic: the frame of a call

ingestVars == <<clock, tzOffset, index, workload, call, requests>>
queryVars == <<PINECONE_NEW, sim, rag>>
vars == <<ingestVars, queryVars, bc, sq, ex, ct>>

\* what each group of actions leaves alone
exceptIngest == <<queryVars, bc, sq, ex, ct>>
exceptQuery == <<ingestVars, bc, sq, ex, ct>>
exceptContext == <<ingestVars, queryVars, sq, ex, ct>>
exceptSub == <<ingestVars, queryVars, bc, ex, ct>>
exceptExtract == <<ingestVars, queryVars, bc, sq, ct>>
exceptChunk == <<ingestVars, queryVars, bc, sq, ex>>

(***************************************************************************)
(* Configuration constants of backend_rag.py                               *)
(***************************************************************************)
TOP_K == 6
MAX_CONTEXT_CHARS == 7000
DEFAULT_TTL_HOURS == 168
MAX_TEXT_CHARS == 10000
MAX_TITLE_CHARS == 200

(***************************************************************************)
(* Bounds of the model                                                     *)
(***************************************************************************)
MaxChunks == 2      \* chunks in one upsert_chunks batch
MaxTicks == 1       \* seconds the clock may advance during a run
MaxRecords == 3     \* records in the index when a query is made
MaxMatches == 3     \* matches in a list passed to build_context
MaxLines == 4       \* lines in a completion generate_sub_questions receives
MaxPieces == 3      \* pieces, between separators, of a text passed to chunk_by_topic

(***************************************************************************)
(* Strings                                                                 *)
(***************************************************************************)
Run(ch, k) == [c |-> ch, n |-> k]

Rep(ch, k) == IF k <= 0 THEN <<>> ELSE <<Run(ch, k)>>

RECURSIVE StrLen(_)
StrLen(s) == IF s = <<>> THEN 0 ELSE s[1].n + StrLen(Tail(s))

\* s[:k]
RECURSIVE StrTake(_, _)
StrTake(s, k) ==
    IF k <= 0 \/ s = <<>> THEN <<>>
    ELSE IF s[1].n <= k THEN <<s[1]>> \o StrTake(Tail(s), k - s[1].n)
    ELSE <<Run(s[1].c, k)>>

Whitespace == {" ", "\n", "\t"}

\* not s.strip()
IsBlank(s) == \A j \in 1..Len(s) : s[j].c \in Whitespace

RECURSIVE LStrip(_)
LStrip(s) == IF s # <<>> /\ s[1].c \in Whitespace THEN LStrip(Tail(s)) ELSE s

RECURSIVE RStrip(_)
RStrip(s) ==
    IF s # <<>> /\ s[Len(s)].c \in Whitespace THEN RStrip(SubSeq(s, 1, Len(s) - 1)) ELSE s

\* s.strip()
Strip(s) == RStrip(LStrip(s))

(***************************************************************************)
(* Ingestion: upsert_chunks                                                *)
(***************************************************************************)
Callers == {"c1", "c2"}
Sources == {"file_a", "url_b"}
TtlChoices == {0, DEFAULT_TTL_HOURS}
ClockStarts == {1700000000}
TzOffsets == {0, 19800}

\* The chunks a caller may pass: empty content, whitespace only, ordinary text,
\* text behind 10000 leading blanks, and content longer than the stored maximum
\* (with a title longer than the stored maximum).
EmptyChunk == [title |-> Rep("T", 5), content |-> <<>>]
BlankChunk == [title |-> Rep("T", 5), content |-> Rep(" ", 3)]
TextChunk == [title |-> Rep("T", 5), content |-> Rep("a", 2)]
IndentedChunk ==
    [title |-> Rep("T", 5), content |-> Rep(" ", MAX_TEXT_CHARS) \o Rep("x", 1)]
LongChunk ==
    [title |-> Rep("T", MAX_TITLE_CHARS + 1), content |-> Rep("b", MAX_TEXT_CHARS + 1)]

ChunkPool == {EmptyChunk, BlankChunk, TextChunk, IndentedChunk, LongChunk}

Batches == UNION { [1..n -> ChunkPool] : n \in 0..MaxChunks }

\* The batches of two callers running side by side: at most one chunk, blank or
\* ordinary text.
SmallBatches == {<<>>, <<BlankChunk>>, <<TextChunk>>}

\* the batches a caller with the given workload may submit
BatchesOf(w) ==
    CASE w = "any" -> Batches
      [] w = "small" -> SmallBatches
      [] OTHER -> {}

IdleFrame ==
    [pc |-> "idle", chunks |-> <<>>, source |-> "", ttl_hours |-> 0, expiry |-> <<>>,
     i |-> 0, content |-> <<>>, title |-> <<>>, doc_id |-> <<>>]

\* int((datetime.utcnow() + timedelta(hours=h)).timestamp()): utcnow() is a naive
\* datetime, which timestamp() reads as local time.
UtcNowPlusHoursTimestamp(h) == clock + h * 3600 - tzOffset

\* expiry = None; if ttl_hours > 0: expiry = ...   (None is <<>>)
ExpiryOf(ttl_hours) ==
    IF ttl_hours > 0 THEN <<UtcNowPlusHoursTimestamp(ttl_hours)>> ELSE <<>>

\* f"{source}_{int(time.time())}_{i}": the two trailing fields are digit strings,
\* so the formatted id determines the triple and the triple stands for it.
DocId(source, ts, i) == <<source, ts, i>>

\* a faulty variant: the content is stored whole
ContentOfUncut(chunk) == chunk.content

\* content = chunk['content'][:10000]
ContentOf(chunk) == StrTake(chunk.content, MAX_TEXT_CHARS)

\* title = chunk['title'][:200]
TitleOf(chunk) == StrTake(chunk.title, MAX_TITLE_CHARS)

\* a faulty variant: only the empty string is dropped: the strip() is forgotten
DroppedNoStrip(content) == content = <<>>

\* if not content.strip(): continue
Dropped(content) == IsBlank(content)

\* metadata = {...}; if expiry: metadata["expires_at"] = expiry
Metadata(f, now) ==
    LET base == [title |-> f.title, text |-> f.content, source |-> f.source,
                 created_at |-> now]
    IN  IF f.expiry # <<>> /\ f.expiry[1] # 0
        THEN [title |-> f.title, text |-> f.content, source |-> f.source,
              created_at |-> now, expires_at |-> f.expiry[1]]
        ELSE base

\* index.upsert(vectors=[...]): the record stored under the id is replaced
IndexUpsert(idx, id, meta) == (id :> meta) @@ idx

Log(c, ev) == requests' = [requests EXCEPT ![c] = Append(@, ev)]

Start(c) ==
    /\ call[c].pc = "idle"
    /\ \E chunks \in BatchesOf(workload[c]), source \in Sources, ttl \in TtlChoices :
          call' = [call EXCEPT ![c] =
                     [IdleFrame EXCEPT !.pc = "loop", !.chunks = chunks,
                                       !.source = source, !.ttl_hours = ttl,
                                       !.expiry = ExpiryOf(ttl)]]
    /\ UNCHANGED <<clock, tzOffset, index, workload, requests, exceptIngest>>

\* the loop is exhausted: upsert_chunks returns
Finish(c) ==
    /\ call[c].pc = "loop"
    /\ call[c].i >= Len(call[c].chunks)
    /\ call' = [call EXCEPT ![c].pc = "done"]
    /\ UNCHANGED <<clock, tzOffset, index, workload, requests, exceptIngest>>

SkipBlank(c) ==
    /\ call[c].pc = "loop"
    /\ call[c].i < Len(call[c].chunks)
    /\ Dropped(ContentOf(call[c].chunks[call[c].i + 1]))
    /\ call' = [call EXCEPT ![c].i = @ + 1]
    /\ UNCHANGED <<clock, tzOffset, index, workload, requests, exceptIngest>>

\* vec, _ = embed_text(content) returns; doc_id is formatted from the clock
EmbedOk(c) ==
    LET f == call[c]
        chunk == f.chunks[f.i + 1]
    IN  /\ f.pc = "loop"
        /\ f.i < Len(f.chunks)
        /\ ~Dropped(ContentOf(chunk))
        /\ call' = [call EXCEPT ![c].pc = "upsert",
                                ![c].content = ContentOf(chunk),
                                ![c].title = TitleOf(chunk),
                                ![c].doc_id = DocId(f.source, clock, f.i)]
        /\ Log(c, [kind |-> "embed", i |-> f.i, ok |-> TRUE, id |-> <<>>,
                   meta |-> [text |-> ContentOf(chunk)]])
        /\ UNCHANGED <<clock, tzOffset, index, workload, exceptIngest>>

\* embed_text raises: nothing catches it
EmbedFail(c) ==
    LET f == call[c]
        chunk == f.chunks[f.i + 1]
    IN  /\ f.pc = "loop"
        /\ f.i < Len(f.chunks)
        /\ ~Dropped(ContentOf(chunk))
        /\ call' = [call EXCEPT ![c].pc = "raised"]
        /\ Log(c, [kind |-> "embed", i |-> f.i, ok |-> FALSE, id |-> <<>>,
                   meta |-> [text |-> ContentOf(chunk)]])
        /\ UNCHANGED <<clock, tzOffset, index, workload, exceptIngest>>

UpsertOk(c) ==
    LET f == call[c]
        meta == Metadata(f, clock)
    IN  /\ f.pc = "upsert"
        /\ index' = IndexUpsert(index, f.doc_id, meta)
        /\ call' = [call EXCEPT ![c].pc = "loop", ![c].i = @ + 1]
        /\ Log(c, [kind |-> "upsert", i |-> f.i, ok |-> TRUE, id |-> f.doc_id,
                   meta |-> meta])
        /\ UNCHANGED <<clock, tzOffset, workload, exceptIngest>>

\* a faulty variant: a failed write takes the batch's earlier records back out of the index
UpsertFailRollback(c) ==
    LET f == call[c]
        mine == { requests[c][k].id : k \in { k \in DOMAIN requests[c] :
                      requests[c][k].kind = "upsert" /\ requests[c][k].ok } }
    IN  /\ f.pc = "upsert"
        /\ call' = [call EXCEPT ![c].pc = "raised"]
        /\ Log(c, [kind |-> "upsert", i |-> f.i, ok |-> FALSE, id |-> f.doc_id,
                   meta |-> Metadata(f, clock)])
        /\ index' = [id \in DOMAIN index \ mine |-> index[id]]
        /\ UNCHANGED <<clock, tzOffset, workload, exceptIngest>>

\* index.upsert raises: nothing catches it, nothing is undone
UpsertFail(c) ==
    LET f == call[c]
    IN  /\ f.pc = "upsert"
        /\ call' = [call EXCEPT ![c].pc = "raised"]
        /\ Log(c, [kind |-> "upsert", i |-> f.i, ok |-> FALSE, id |-> f.doc_id,
                   meta |-> Metadata(f, clock)])
        /\ UNCHANGED <<clock, tzOffset, index, workload, exceptIngest>>

Tick ==
    /\ \E s \in ClockStarts : clock < s + MaxTicks
    /\ clock' = clock + 1
    /\ UNCHANGED <<tzOffset, index, workload, call, requests, exceptIngest>>

\* no retrieve or answer call is in progress
RagIdle ==
    [op |-> "none", pc |-> "idle", question |-> <<>>, style |-> "", lang |-> "",
     top_k |-> 0, current_ts |-> 0, matches |-> <<>>, built |-> 0, calls |-> <<>>,
     request |-> <<>>, result |-> <<>>]

BcIdle == [pc |-> "idle", matches |-> <<>>, out |-> <<>>]

SqIdle ==
    [pc |-> "idle", question |-> <<>>, lang |-> "", calls |-> <<>>, raw |-> <<>>,
     result |-> <<>>]

ExIdle ==
    [pc |-> "idle", filepath |-> <<>>, PyPDF2 |-> FALSE, docx2txt |-> FALSE,
     file |-> <<>>, printed |-> "", out |-> <<>>]

CtIdle == [pc |-> "idle", text |-> <<>>, chunks |-> <<>>]

\* no extraction and no chunking call is in progress
NoDocument ==
    /\ ex = ExIdle
    /\ ct = CtIdle

NoQuery ==
    /\ PINECONE_NEW = TRUE
    /\ sim = <<>>
    /\ rag = RagIdle
    /\ bc = BcIdle
    /\ sq = SqIdle
    /\ NoDocument

InitIngest ==
    /\ clock \in ClockStarts
    /\ tzOffset \in TzOffsets
    /\ index = <<>>
    /\ call = [c \in Callers |-> IdleFrame]
    /\ requests = [c \in Callers |-> <<>>]
    /\ NoQuery

\* one caller, any batch
Init ==
    /\ InitIngest
    /\ workload = [c \in Callers |-> IF c = "c1" THEN "any" ELSE "none"]

\* two callers side by side, small batches
InitConcurrent ==
    /\ InitIngest
    /\ workload = [c \in Callers |-> "small"]

Next ==
    \/ Tick
    \/ \E c \in Callers : Start(c)
    \/ \E c \in Callers : Finish(c)
    \/ \E c \in Callers : SkipBlank(c)
    \/ \E c \in Callers : EmbedOk(c)
    \/ \E c \in Callers : EmbedFail(c)
    \/ \E c \in Callers : UpsertOk(c)
    \/ \E c \in Callers : UpsertFail(c)

Spec == Init /\ [][Next]_vars

SpecConcurrent == InitConcurrent /\ [][Next]_vars

(***************************************************************************)
(* Claims about ingestion                                                  *)
(***************************************************************************)
\* the requests of kind k that call c issued for the chunk at position i (0-based)
Issued(c, k, i) ==
    { n \in DOMAIN requests[c] : requests[c][n].kind = k /\ requests[c][n].i = i }

\* the index writes of call c that succeeded
Written(c) ==
    { n \in DOMAIN requests[c] : requests[c][n].kind = "upsert" /\ requests[c][n].ok }

\* C6: every record written by upsert_chunks that carries an expires_at has
\* expires_at = created_at + ttl_hours*3600, whatever the clock did during the batch.
C6_ExpiresAtIsCreatedAtPlusTtl ==
    \A c \in Callers : \A n \in Written(c) :
        LET meta == requests[c][n].meta
        IN  "expires_at" \in DOMAIN meta
                => meta.expires_at = meta.created_at + call[c].ttl_hours * 3600

\* C7: any two records upserted by any calls receive distinct ids.
C7_RecordIdsUnique ==
    \A c1, c2 \in Callers : \A n1 \in Written(c1), n2 \in Written(c2) :
        <<c1, n1>> # <<c2, n2>> => requests[c1][n1].id # requests[c2][n2].id

\* C8 as stated: in a call that returned, a chunk whose content is not
\* empty/whitespace-only has exactly one embedding request and one index write,
\* and a chunk whose content is empty/whitespace-only has none.
C8_OnePerNonBlankChunk ==
    \A c \in Callers :
        call[c].pc = "done" =>
            \A j \in 1..Len(call[c].chunks) :
                LET want == IF IsBlank(call[c].chunks[j].content) THEN 0 ELSE 1
                IN  /\ Cardinality(Issued(c, "embed", j - 1)) = want
                    /\ Cardinality(Issued(c, "upsert", j - 1) \cap Written(c)) = want

\* C8 as amended: in a call that returned, a chunk whose first 10000 characters
\* are not all whitespace has exactly one embedding request and one index write,
\* under an id of its own within the batch, holding those characters; a chunk
\* whose first 10000 characters are empty or all whitespace has none.
C8_OnePerKeptChunk ==
    \A c \in Callers :
        call[c].pc = "done" =>
            /\ \A j \in 1..Len(call[c].chunks) :
                 LET kept == StrTake(call[c].chunks[j].content, 10000)
                     want == IF IsBlank(kept) THEN 0 ELSE 1
                 IN  /\ Cardinality(Issued(c, "embed", j - 1)) = want
                     /\ Cardinality(Issued(c, "upsert", j - 1)) = want
                     /\ Issued(c, "upsert", j - 1) \subseteq Written(c)
                     /\ \A n \in Issued(c, "upsert", j - 1) :
                            requests[c][n].meta.text = kept
            /\ \A n1, n2 \in Written(c) :
                 n1 # n2 => requests[c][n1].id # requests[c][n2].id

\* a call has returned after keeping one chunk and dropping another, one of them
\* a chunk with text behind 10000 blanks
C8_Witness ==
    \E c \in Callers :
        /\ call[c].pc = "done"
        /\ Len(call[c].chunks) = 2
        /\ \E j \in 1..2 : call[c].chunks[j] = IndentedChunk
        /\ Cardinality(Written(c)) = 1

\* C9: when the embedding or the index write of a chunk fails, the step that
\* fails leaves the index as it is (the batch's earlier records stay, nothing is
\* rolled back) and ends the call with the failure raised: the call issues no
\* further request and never returns normally.
C9_NoRollbackOnFailure ==
    [][\A c \in Callers :
          /\ (call[c].pc # "raised" /\ call'[c].pc = "raised") =>
                /\ index' = index
                /\ \A n \in Written(c) :
                      /\ requests[c][n].id \in DOMAIN index'
                      /\ index'[requests[c][n].id] = index[requests[c][n].id]
                /\ ~requests'[c][Len(requests'[c])].ok
          /\ call[c].pc = "raised" =>
                /\ call'[c] = call[c]
                /\ requests'[c] = requests[c]]_vars

\* a call failed on its second chunk with the first chunk's record in the index
C9_Witness ==
    \E c \in Callers :
        /\ call[c].pc = "raised"
        /\ call[c].i = 1
        /\ Cardinality(Written(c)) = 1
        /\ \A n \in Written(c) : requests[c][n].id \in DOMAIN index

(***************************************************************************)
(* Formatting                                                              *)
(***************************************************************************)
\* a literal piece of a formatted string: c is the literal, n its length
Lit(text, k) == <<Run(text, k)>>

DigitChars == <<"0", "1", "2", "3", "4", "5", "6", "7", "8", "9">>

\* str(n) of a natural number
RECURSIVE Digits(_)
Digits(n) ==
    IF n < 10 THEN Lit(DigitChars[n + 1], 1)
    ELSE Digits(n \div 10) \o Lit(DigitChars[(n % 10) + 1], 1)

Abs(x) == IF x < 0 THEN -x ELSE x

\* f"{x:.3f}" of a score given in thousandths
Fixed3(milli) ==
    LET a == Abs(milli)
        frac == a % 1000
    IN  (IF milli < 0 THEN Lit("-", 1) ELSE <<>>)
        \o Digits(a \div 1000) \o Lit(".", 1)
        \o Lit(DigitChars[(frac \div 100) + 1], 1)
        \o Lit(DigitChars[((frac \div 10) % 10) + 1], 1)
        \o Lit(DigitChars[(frac % 10) + 1], 1)

\* sep.join(parts)
RECURSIVE Join(_, _)
Join(sep, parts) ==
    IF parts = <<>> THEN <<>>
    ELSE IF Len(parts) = 1 THEN parts[1]
    ELSE parts[1] \o sep \o Join(sep, Tail(parts))

\* t occurs in s, run for run
Contains(s, t) ==
    \E k \in 0..(Len(s) - Len(t)) : SubSeq(s, k + 1, k + Len(t)) = t

(***************************************************************************)
(* Retrieval: retrieve                                                     *)
(***************************************************************************)
MIN_SCORE_MILLI == 250

\* DEFAULT_TTL_HOURS > 0
TtlEnforced == DEFAULT_TTL_HOURS > 0

Match(id) == [id |-> id, score |-> sim[id], metadata |-> index[id]]

\* the backend's ranking: nearest first, equal scores by sequence number
Nearer(a, b) == sim[a] > sim[b] \/ (sim[a] = sim[b] /\ a[3] <= b[3])

RECURSIVE Ranked(_)
Ranked(ids) ==
    IF ids = {} THEN <<>>
    ELSE LET best == CHOOSE a \in ids : \A b \in ids : Nearer(a, b)
         IN  <<best>> \o Ranked(ids \ {best})

\* filter={"expires_at": {"$gt": ts}}: a record without the field does not match
NativeFilter(meta, ts) == "expires_at" \in DOMAIN meta /\ meta.expires_at > ts

\* index.query(vector, top_k, filter): the top_k nearest of the records that
\* pass the filter (filtered = FALSE: no filter)
IndexQuery(top_k, filtered, ts) ==
    LET ids == { id \in DOMAIN index : ~filtered \/ NativeFilter(index[id], ts) }
        order == Ranked(ids)
    IN  [k \in 1..(IF Len(order) < top_k THEN Len(order) ELSE top_k) |-> Match(order[k])]

\* a faulty variant: the client-side filter keeps a record that expires this very second
ClientTtlKeepsInclusive(m, ts) ==
    IF "expires_at" \in DOMAIN m.metadata THEN m.metadata.expires_at >= ts ELSE TRUE

\* m.get("metadata", {}).get("expires_at", float('inf')) > current_ts
ClientTtlKeeps(m, ts) ==
    IF "expires_at" \in DOMAIN m.metadata THEN m.metadata.expires_at > ts ELSE TRUE

\* (m.get("metadata") or {}).get("text")
HasText(m) == "text" \in DOMAIN m.metadata /\ m.metadata.text # <<>>

\* the new-SDK branch of retrieve, after the embedding
RetrieveNative(top_k, ts) ==
    LET keepText(m) == HasText(m)
    IN  SelectSeq(IndexQuery(top_k, TtlEnforced, ts), keepText)

\* the old-SDK branch of retrieve, after the embedding
RetrievePostFilter(top_k, ts) ==
    LET keepLive(m) == ClientTtlKeeps(m, ts)
        keepText(m) == HasText(m)
        got == IndexQuery(top_k, FALSE, ts)
    IN  SelectSeq(IF TtlEnforced THEN SelectSeq(got, keepLive) ELSE got, keepText)

RetrieveMatches(new, top_k, ts) ==
    IF new THEN RetrieveNative(top_k, ts) ELSE RetrievePostFilter(top_k, ts)

(***************************************************************************)
(* Context assembly: build_context                                         *)
(***************************************************************************)
\* m.get("score", 0)
ScoreOf(m) == IF "score" \in DOMAIN m THEN m.score ELSE 0

\* (m.get("metadata") or {}).get("text", "")
TextOf(m) ==
    IF "metadata" \in DOMAIN m /\ "text" \in DOMAIN m.metadata THEN m.metadata.text ELSE <<>>

\* a faulty variant: of two matches with equal scores the later one comes first
RECURSIVE SortByScoreTiesReversed(_)
SortByScoreTiesReversed(ms) ==
    IF ms = <<>> THEN <<>>
    ELSE LET front == SortByScoreTiesReversed(SubSeq(ms, 1, Len(ms) - 1))
             x == ms[Len(ms)]
             k == Cardinality({ j \in 1..Len(front) : ScoreOf(front[j]) > ScoreOf(x) })
         IN  SubSeq(front, 1, k) \o <<x>> \o SubSeq(front, k + 1, Len(front))

\* sorted(matches, key=score, reverse=True): stable, equal scores keep their order
RECURSIVE SortByScore(_)
SortByScore(ms) ==
    IF ms = <<>> THEN <<>>
    ELSE LET front == SortByScore(SubSeq(ms, 1, Len(ms) - 1))
             x == ms[Len(ms)]
             k == Cardinality({ j \in 1..Len(front) : ScoreOf(front[j]) >= ScoreOf(x) })
         IN  SubSeq(front, 1, k) \o <<x>> \o SubSeq(front, k + 1, Len(front))

\* f"[{i} | score={score:.3f}]\n{t}\n"
FormatChunk(i, m) ==
    Lit("[", 1) \o Digits(i) \o Lit(" | score=", 9) \o Fixed3(ScoreOf(m))
        \o Lit("]\n", 2) \o TextOf(m) \o Lit("\n", 1)

\* a faulty variant: a chunk that does not fit is passed over and the loop goes on
RECURSIVE PackSkipping(_, _, _, _)
PackSkipping(ms, i, parts, size) ==
    IF i > Len(ms) THEN parts
    ELSE IF TextOf(ms[i]) = <<>> THEN PackSkipping(ms, i + 1, parts, size)
    ELSE LET chunk == FormatChunk(i, ms[i])
         IN  IF size + StrLen(chunk) > MAX_CONTEXT_CHARS
             THEN PackSkipping(ms, i + 1, parts, size)
             ELSE PackSkipping(ms, i + 1, Append(parts, chunk), size + StrLen(chunk))

\* the loop of build_context from rank i on, over the sorted matches
RECURSIVE Pack(_, _, _, _)
Pack(ms, i, parts, size) ==
    IF i > Len(ms) THEN parts
    ELSE IF TextOf(ms[i]) = <<>> THEN Pack(ms, i + 1, parts, size)
    ELSE LET chunk == FormatChunk(i, ms[i])
         IN  IF size + StrLen(chunk) > MAX_CONTEXT_CHARS THEN parts
             ELSE Pack(ms, i + 1, Append(parts, chunk), size + StrLen(chunk))

BuildContext(ms) == Join(Lit("\n", 1), Pack(SortByScore(ms), 1, <<>>, 0))

(***************************************************************************)
(* Answering: ask_llm, answer                                              *)
(***************************************************************************)
\* the completion request ask_llm sends (temperature in tenths)
AskLlmRequest(question, context, style, lang) ==
    [lang_instr |-> IF lang = "hi" THEN "Answer in Hindi using Devanagari script."
                    ELSE "Answer in English.",
     style_instr |-> IF style = "detailed"
                     THEN "Provide detailed explanation with examples."
                     ELSE "Keep answer concise.",
     user |-> IF context # <<>>
              THEN Lit("Question:\n", 10) \o question \o Lit("\n\nContext:\n", 11) \o context
              ELSE Lit("Question:\n", 10) \o question,
     temperature |-> IF style = "concise" THEN 4 ELSE 7,
     max_tokens |-> IF style = "concise" THEN 300 ELSE 800]

\* a faulty variant: no relevance gate: every retrieved match counts as strong
StrongNoGate(matches) == matches

\* [m for m in matches if m.get("score", 0) >= MIN_SCORE]
Strong(matches) ==
    LET strong(m) == ScoreOf(m) >= MIN_SCORE_MILLI
    IN  SelectSeq(matches, strong)

Questions == {Rep("q", 5)}
Styles == {"concise", "detailed", "technical", "beginner"}
Langs == {"en", "hi"}
TopKs == {1, 2, TOP_K}
Answers == {Rep("A", 3), Rep(" ", 1) \o Rep("A", 3) \o Rep("\n", 1)}

\* The records a query may find in the index, each as upsert_chunks writes it:
\* its similarity to the query, the length of its text, and whether it expires
\* after the query ("live"), at the very second of the query ("expired") or never.
StoredPool ==
    { [score |-> 900, len |-> 1,    ttl |-> "live"],
      [score |-> 900, len |-> 6982, ttl |-> "live"],
      [score |-> 500, len |-> 3481, ttl |-> "live"],
      [score |-> 100, len |-> 1,    ttl |-> "live"],
      [score |-> 900, len |-> 1,    ttl |-> "expired"],
      [score |-> 500, len |-> 3481, ttl |-> "none"] }

StoredTexts == <<"a", "b", "c", "d", "e", "f", "g", "h">>

\* the metadata of the k-th stored record, of kind r, for a query at second now
StoredMeta(r, k, now) ==
    LET f == [IdleFrame EXCEPT !.title = Rep("T", 5), !.source = "file_a",
                               !.content = Rep(StoredTexts[k], r.len),
                               !.expiry = CASE r.ttl = "live" -> <<now + 1>>
                                            [] r.ttl = "expired" -> <<now>>
                                            [] OTHER -> <<>>]
    IN  Metadata(f, IF r.ttl = "none" THEN now - 60
                    ELSE f.expiry[1] - DEFAULT_TTL_HOURS * 3600)

StoredId(r, k, now) == DocId("file_a", StoredMeta(r, k, now).created_at, k - 1)

RagLog(ev) == Append(rag.calls, ev)

\* answer(question, style, lang) is called
StartAnswer ==
    /\ rag.pc = "idle"
    /\ \E question \in Questions, style \in Styles, lang \in Langs :
          rag' = [RagIdle EXCEPT !.op = "answer", !.pc = "embed", !.question = question,
                                 !.style = style, !.lang = lang, !.top_k = TOP_K]
    /\ UNCHANGED <<PINECONE_NEW, sim, exceptQuery>>

\* retrieve(query, top_k) is called on its own
StartRetrieve ==
    /\ rag.pc = "idle"
    /\ \E query \in Questions, k \in TopKs :
          rag' = [RagIdle EXCEPT !.op = "retrieve", !.pc = "embed", !.question = query,
                                 !.top_k = k]
    /\ UNCHANGED <<PINECONE_NEW, sim, exceptQuery>>

\* qvec, _ = embed_text(query) returns; current_ts = int(time.time())
QueryEmbedOk ==
    /\ rag.pc = "embed"
    /\ rag' = [rag EXCEPT !.pc = "query", !.current_ts = clock,
                          !.calls = RagLog([kind |-> "embed", ok |-> TRUE])]
    /\ UNCHANGED <<PINECONE_NEW, sim, exceptQuery>>

\* a faulty variant: a failed embedding is tried once more
QueryEmbedRetry ==
    /\ rag.pc = "embed"
    /\ rag' = [rag EXCEPT !.pc = IF rag.calls = <<>> THEN "embed" ELSE "raised",
                          !.calls = RagLog([kind |-> "embed", ok |-> FALSE])]
    /\ UNCHANGED <<PINECONE_NEW, sim, exceptQuery>>

\* embed_text raises: retrieve has no try/except, nor has answer
QueryEmbedFail ==
    /\ rag.pc = "embed"
    /\ rag' = [rag EXCEPT !.pc = "raised",
                          !.calls = RagLog([kind |-> "embed", ok |-> FALSE])]
    /\ UNCHANGED <<PINECONE_NEW, sim, exceptQuery>>

\* index.query returns: retrieve filters and returns; answer goes on to the gate,
\* builds the context if a match is strong, and prepares the completion request
IndexQueryOk ==
    LET matches == RetrieveMatches(PINECONE_NEW, rag.top_k, rag.current_ts)
        strong == Strong(matches)
        ctx == IF strong = <<>> THEN <<>> ELSE BuildContext(strong)
    IN  /\ rag.pc = "query"
        /\ rag' = IF rag.op = "retrieve"
                  THEN [rag EXCEPT !.pc = "returned", !.matches = matches,
                                   !.calls = RagLog([kind |-> "query", ok |-> TRUE])]
                  ELSE [rag EXCEPT !.pc = "ask", !.matches = matches,
                                   !.built = IF strong = <<>> THEN 0 ELSE 1,
                                   !.calls = RagLog([kind |-> "query", ok |-> TRUE]),
                                   !.request = AskLlmRequest(rag.question, ctx, rag.style,
                                                             rag.lang)]
        /\ UNCHANGED <<PINECONE_NEW, sim, exceptQuery>>

\* a faulty variant: a failed index query counts as a retrieval without matches
IndexQueryFailSwallowed ==
    /\ rag.pc = "query"
    /\ rag' = IF rag.op = "retrieve"
              THEN [rag EXCEPT !.pc = "returned",
                               !.calls = RagLog([kind |-> "query", ok |-> FALSE])]
              ELSE [rag EXCEPT !.pc = "ask",
                               !.calls = RagLog([kind |-> "query", ok |-> FALSE]),
                               !.request = AskLlmRequest(rag.question, <<>>, rag.style,
                                                         rag.lang)]
    /\ UNCHANGED <<PINECONE_NEW, sim, exceptQuery>>

\* index.query raises: retrieve has no try/except, nor has answer
IndexQueryFail ==
    /\ rag.pc = "query"
    /\ rag' = [rag EXCEPT !.pc = "raised",
                          !.calls = RagLog([kind |-> "query", ok |-> FALSE])]
    /\ UNCHANGED <<PINECONE_NEW, sim, exceptQuery>>

\* the completion returns: ans = r.choices[0].message.content.strip()
AskOk ==
    /\ rag.pc = "ask"
    /\ \E content \in Answers :
          rag' = [rag EXCEPT !.pc = "done", !.result = Strip(content),
                             !.calls = RagLog([kind |-> "complete", ok |-> TRUE,
                                               request |-> rag.request])]
    /\ UNCHANGED <<PINECONE_NEW, sim, exceptQuery>>

\* oa.chat.completions.create raises: ask_llm has no try/except, nor has answer
AskFail ==
    /\ rag.pc = "ask"
    /\ rag' = [rag EXCEPT !.pc = "raised", !.result = <<>>,
                          !.calls = RagLog([kind |-> "complete", ok |-> FALSE,
                                            request |-> rag.request])]
    /\ UNCHANGED <<PINECONE_NEW, sim, exceptQuery>>

InitQuery ==
    /\ clock \in ClockStarts
    /\ tzOffset = 0
    /\ workload = [c \in Callers |-> "none"]
    /\ call = [c \in Callers |-> IdleFrame]
    /\ requests = [c \in Callers |-> <<>>]
    /\ PINECONE_NEW \in BOOLEAN
    /\ rag = RagIdle
    /\ bc = BcIdle
    /\ sq = SqIdle
    /\ NoDocument
    /\ \E n \in 0..MaxRecords : \E kinds \in [1..n -> StoredPool] :
          /\ index = [id \in { StoredId(kinds[k], k, clock) : k \in 1..n } |->
                        LET k == id[3] + 1 IN StoredMeta(kinds[k], k, clock)]
          /\ sim = [id \in { StoredId(kinds[k], k, clock) : k \in 1..n } |->
                        kinds[id[3] + 1].score]

NextQuery ==
    \/ StartAnswer
    \/ StartRetrieve
    \/ QueryEmbedOk
    \/ QueryEmbedFail
    \/ IndexQueryOk
    \/ IndexQueryFail
    \/ AskOk
    \/ AskFail

SpecQuery == InitQuery /\ [][NextQuery]_vars

(***************************************************************************)
(* build_context called on any list of matches                             *)
(***************************************************************************)
\* the matches a caller may pass: any score, with text of any length or none
MatchScores == {-500, 500, 900}
MatchLens == {0, 1, 3481, 6982}

MatchLists ==
    UNION { [1..n -> [score : MatchScores, len : MatchLens]] : n \in 0..MaxMatches }

AsMatch(kind, k) ==
    [id |-> k, score |-> kind.score, metadata |-> [text |-> Rep(StoredTexts[k], kind.len)]]

BuildContextCall ==
    /\ bc.pc = "idle"
    /\ bc' = [bc EXCEPT !.pc = "returned", !.out = BuildContext(bc.matches)]
    /\ UNCHANGED exceptContext

InitContext ==
    /\ clock \in ClockStarts
    /\ tzOffset = 0
    /\ index = <<>>
    /\ workload = [c \in Callers |-> "none"]
    /\ call = [c \in Callers |-> IdleFrame]
    /\ requests = [c \in Callers |-> <<>>]
    /\ PINECONE_NEW = TRUE
    /\ sim = <<>>
    /\ rag = RagIdle
    /\ sq = SqIdle
    /\ NoDocument
    /\ \E kinds \in MatchLists :
          bc = [BcIdle EXCEPT !.matches = [k \in DOMAIN kinds |-> AsMatch(kinds[k], k)]]

NextContext == BuildContextCall

SpecContext == InitContext /\ [][NextContext]_vars

(***************************************************************************)
(* Claims about retrieval and answering                                    *)
(***************************************************************************)
\* the completion requests the call in progress has issued
Completions == { n \in DOMAIN rag.calls : rag.calls[n].kind = "complete" }

\* answer has its matches back from retrieve
Retrieved ==
    /\ rag.op = "answer"
    /\ \E n \in DOMAIN rag.calls : rag.calls[n].kind = "query" /\ rag.calls[n].ok

\* C1: when retrieve returns no match with score >= MIN_SCORE (none at all
\* included), answer never invokes build_context and its single completion
\* request carries the question alone.
C1_UngroundedWhenNoStrongMatch ==
    (Retrieved /\ \A j \in DOMAIN rag.matches : rag.matches[j].score < 250) =>
        /\ rag.built = 0
        /\ rag.request.user = Lit("Question:\n", 10) \o rag.question
        /\ Cardinality(Completions) = IF rag.pc = "ask" THEN 0 ELSE 1
        /\ \A n \in Completions :
              rag.calls[n].request.user = Lit("Question:\n", 10) \o rag.question

\* answer has returned after a retrieval that found only weak matches
C1_Witness ==
    /\ Retrieved
    /\ rag.pc = "done"
    /\ rag.matches # <<>>
    /\ \A j \in DOMAIN rag.matches : rag.matches[j].score < 250
    /\ Cardinality(Completions) = 1

\* C2: when retrieve returns a match with score >= MIN_SCORE, the completion
\* request's user prompt has a context section holding the text of a
\* highest-scoring strong match, whatever the length of the stored text.
C2_GroundedWhenStrongMatch ==
    (Retrieved /\ \E j \in DOMAIN rag.matches : rag.matches[j].score >= 250) =>
        /\ Contains(rag.request.user, Lit("\n\nContext:\n", 11))
        /\ \E j \in DOMAIN rag.matches :
              /\ \A k \in DOMAIN rag.matches : rag.matches[k].score <= rag.matches[j].score
              /\ Contains(rag.request.user, rag.matches[j].metadata.text)

\* C4: with TTL enforcement on, no match retrieve returns has an expires_at at
\* or before the time retrieve read, on either SDK path.
C4_NoExpiredMatch ==
    DEFAULT_TTL_HOURS > 0 =>
        \A j \in DOMAIN rag.matches :
            "expires_at" \in DOMAIN rag.matches[j].metadata
                => rag.matches[j].metadata.expires_at > rag.current_ts

\* retrieve has returned matches on the post-filter path from an index whose
\* nearest record had expired
C4_Witness ==
    /\ rag.op = "retrieve" /\ rag.pc = "returned"
    /\ ~PINECONE_NEW
    /\ rag.matches # <<>>
    /\ \E id \in DOMAIN index :
          /\ "expires_at" \in DOMAIN index[id]
          /\ index[id].expires_at <= rag.current_ts
          /\ \A other \in DOMAIN index : sim[other] <= sim[id]

\* C5: the native-filter path and the post-filter path of retrieve return the
\* same set of matches for the same index, query, top_k and time.
C5_TtlPathsEquivalent ==
    (rag.op = "retrieve" /\ rag.pc = "returned") =>
        LET other == RetrieveMatches(~PINECONE_NEW, rag.top_k, rag.current_ts)
        IN  { rag.matches[j] : j \in DOMAIN rag.matches } = { other[j] : j \in DOMAIN other }

(***************************************************************************)
(* Sub-questions: generate_sub_questions                                   *)
(***************************************************************************)
MAX_QUESTION_CHARS == 150
MAX_SUB_QUESTIONS == 3

\* s.split('\n'), from the runs still to read, the line being read and the
\* lines read
RECURSIVE SplitFrom(_, _, _)
SplitFrom(s, cur, acc) ==
    IF s = <<>> THEN Append(acc, cur)
    ELSE IF s[1].c = "\n"
         THEN SplitFrom(Tail(s), <<>>, Append(acc, cur) \o [j \in 1..(s[1].n - 1) |-> <<>>])
         ELSE SplitFrom(Tail(s), Append(cur, s[1]), acc)

SplitLines(s) == SplitFrom(s, <<>>, <<>>)

\* s[1:]
DropFirstChar(s) ==
    IF s[1].n > 1 THEN <<Run(s[1].c, s[1].n - 1)>> \o Tail(s) ELSE Tail(s)

IsDigit(ch) == \E d \in DOMAIN DigitChars : DigitChars[d] = ch

\* the number of leading runs of digits
RECURSIVE LeadingDigitRuns(_)
LeadingDigitRuns(s) ==
    IF s # <<>> /\ IsDigit(s[1].c) THEN 1 + LeadingDigitRuns(Tail(s)) ELSE 0

\* re.sub(r'^\d+[\.\)]\s*', '', line)
StripNumbering(line) ==
    LET d == LeadingDigitRuns(line)
    IN  IF d >= 1 /\ Len(line) > d /\ line[d + 1].c \in {".", ")"}
        THEN LStrip(DropFirstChar(SubSeq(line, d + 1, Len(line))))
        ELSE line

\* re.sub(r'^[-\*]\s*', '', line)
StripBullet(line) ==
    IF line # <<>> /\ line[1].c \in {"-", "*"} THEN LStrip(DropFirstChar(line)) ELSE line

\* line.endswith('?')
EndsWithQuestionMark(line) == line # <<>> /\ line[Len(line)].c = "?"

\* a faulty variant: the length of a line is not checked
AcceptableAnyLength(line) == EndsWithQuestionMark(line)

\* not (len(line) > 150 or not line.endswith('?'))
Acceptable(line) == StrLen(line) <= MAX_QUESTION_CHARS /\ EndsWithQuestionMark(line)

\* the loop over raw.split('\n'): the cleaned questions, in order
RECURSIVE CleanLines(_)
CleanLines(lines) ==
    IF lines = <<>> THEN <<>>
    ELSE LET stripped == Strip(lines[1])
             line == StripBullet(StripNumbering(stripped))
         IN  (IF stripped # <<>> /\ Acceptable(line) THEN <<line>> ELSE <<>>)
                 \o CleanLines(Tail(lines))

\* [f"What is {main_question}?"]
Fallback(question) == << Lit("What is ", 8) \o question \o Rep("?", 1) >>

\* what generate_sub_questions returns for a completion whose content is content
SubQuestionsOf(question, content) ==
    LET cleaned == CleanLines(SplitLines(Strip(content)))
    IN  IF Len(cleaned) = 0 THEN Fallback(question)
        ELSE SubSeq(cleaned, 1, IF Len(cleaned) < MAX_SUB_QUESTIONS THEN Len(cleaned)
                                 ELSE MAX_SUB_QUESTIONS)

\* The lines a completion may hold: a question, a numbered one, a bulleted one,
\* a line that is no question, a question of 151 characters, a numbered question
\* of 150 characters, and a blank line.
LinePool ==
    { Rep("w", 3) \o Rep("?", 1),
      Rep("1", 1) \o Rep(".", 1) \o Rep(" ", 1) \o Rep("x", 3) \o Rep("?", 1),
      Rep("-", 1) \o Rep(" ", 1) \o Rep("y", 3) \o Rep("?", 1),
      Rep("z", 3),
      Rep("u", 150) \o Rep("?", 1),
      Rep("1", 1) \o Rep("2", 1) \o Rep(")", 1) \o Rep(" ", 2) \o Rep("v", 149) \o Rep("?", 1),
      Rep(" ", 2) }

SubCompletions == UNION { [1..n -> LinePool] : n \in 0..MaxLines }

SubQuestionTopics == {Rep("q", 5), Rep("q", 200)}

\* generate_sub_questions(main_question, lang) is called
SubStart ==
    /\ sq.pc = "idle"
    /\ \E question \in SubQuestionTopics, lang \in Langs :
          sq' = [SqIdle EXCEPT !.pc = "call", !.question = question, !.lang = lang]
    /\ UNCHANGED exceptSub

\* the completion returns text: it is cleaned line by line
SubCompleted ==
    /\ sq.pc = "call"
    /\ \E lines \in SubCompletions :
          LET content == Join(Rep("\n", 1), lines)
          IN  sq' = [sq EXCEPT !.pc = "returned", !.raw = content,
                               !.calls = Append(@, [kind |-> "complete", ok |-> TRUE]),
                               !.result = SubQuestionsOf(sq.question, content)]
    /\ UNCHANGED exceptSub

\* a faulty variant: the failure of the completion leaves generate_sub_questions
SubFailedPropagates ==
    /\ sq.pc = "call"
    /\ sq' = [sq EXCEPT !.pc = "raised", !.raw = <<>>,
                         !.calls = Append(@, [kind |-> "complete", ok |-> FALSE])]
    /\ UNCHANGED exceptSub

\* the completion raises, or returns no content (content.strip() raises): the
\* except clause answers with the fallback
SubFailed ==
    /\ sq.pc = "call"
    /\ sq' = [sq EXCEPT !.pc = "returned", !.raw = <<>>,
                         !.calls = Append(@, [kind |-> "complete", ok |-> FALSE]),
                         !.result = Fallback(sq.question)]
    /\ UNCHANGED exceptSub

InitSub ==
    /\ clock \in ClockStarts
    /\ tzOffset = 0
    /\ index = <<>>
    /\ workload = [c \in Callers |-> "none"]
    /\ call = [c \in Callers |-> IdleFrame]
    /\ requests = [c \in Callers |-> <<>>]
    /\ NoQuery

NextSub ==
    \/ SubStart
    \/ SubCompleted
    \/ SubFailed

SpecSub == InitSub /\ [][NextSub]_vars

\* C3: the string build_context returns is at most MAX_CONTEXT_CHARS characters
\* long, the separators between the formatted chunks counted.
C3_ContextWithinBudget ==
    bc.pc = "returned" => StrLen(bc.out) <= 7000

\* C10: generate_sub_questions returns a non-empty list that is either at most 3
\* strings, each ending in '?' and at most 150 characters long, or the single
\* fallback "What is <question>?".
C10_SubQuestionsWellFormed ==
    sq.pc = "returned" =>
        /\ Len(sq.result) >= 1
        /\ \/ /\ Len(sq.result) <= 3
              /\ \A j \in DOMAIN sq.result :
                    /\ sq.result[j] # <<>>
                    /\ sq.result[j][Len(sq.result[j])].c = "?"
                    /\ StrLen(sq.result[j]) <= 150
           \/ sq.result = << Lit("What is ", 8) \o sq.question \o Lit("?", 1) >>

\* a completion of four lines, one of them a question of 151 characters, came
\* back and three questions were returned
C10_Witness ==
    /\ sq.pc = "returned"
    /\ Len(SplitLines(sq.raw)) = 4
    /\ \E j \in 1..4 : StrLen(SplitLines(sq.raw)[j]) = 151
    /\ Len(sq.result) = 3

\* C11: when the completion backend fails during generate_sub_questions, the
\* failure does not leave the call: the call returns, and what it returns is the
\* one-element list holding "What is <question>?".
C11_BackendFailureGivesFallback ==
    (\E n \in DOMAIN sq.calls : ~sq.calls[n].ok) =>
        /\ sq.pc = "returned"
        /\ Len(sq.result) = 1
        /\ sq.result[1] = Lit("What is ", 8) \o sq.question \o Lit("?", 1)

\* the completion failed for a question of 200 characters and the call returned
C11_Witness ==
    /\ sq.pc = "returned"
    /\ Len(sq.calls) = 1
    /\ ~sq.calls[1].ok
    /\ StrLen(sq.question) = 200
    /\ StrLen(sq.result[1]) = 209

(***************************************************************************)
(* Characters                                                              *)
(***************************************************************************)
\* the string whose characters are chars, one after the other
RECURSIVE Str(_)
Str(chars) ==
    IF chars = <<>> THEN <<>>
    ELSE LET front == Str(SubSeq(chars, 1, Len(chars) - 1))
             ch == chars[Len(chars)]
         IN  IF front # <<>> /\ front[Len(front)].c = ch
             THEN SubSeq(front, 1, Len(front) - 1) \o <<Run(ch, front[Len(front)].n + 1)>>
             ELSE Append(front, Run(ch, 1))

\* the characters of s, one after the other
RECURSIVE Chars(_)
Chars(s) ==
    IF s = <<>> THEN <<>> ELSE [j \in 1..s[1].n |-> s[1].c] \o Chars(Tail(s))

\* s[k - 1], for a k within the string
RECURSIVE CharAt(_, _)
CharAt(s, k) == IF k <= s[1].n THEN s[1].c ELSE CharAt(Tail(s), k - s[1].n)

\* s[k:]
RECURSIVE StrDrop(_, _)
StrDrop(s, k) ==
    IF k <= 0 \/ s = <<>> THEN s
    ELSE IF s[1].n <= k THEN StrDrop(Tail(s), k - s[1].n)
    ELSE <<Run(s[1].c, s[1].n - k)>> \o Tail(s)

\* s + t
Concat(s, t) ==
    IF s # <<>> /\ t # <<>> /\ s[Len(s)].c = t[1].c
    THEN SubSeq(s, 1, Len(s) - 1) \o <<Run(t[1].c, s[Len(s)].n + t[1].n)>> \o Tail(t)
    ELSE s \o t

UpperLetters ==
    <<"A", "B", "C", "D", "E", "F", "G", "H", "I", "J", "K", "L", "M",
      "N", "O", "P", "Q", "R", "S", "T", "U", "V", "W", "X", "Y", "Z">>

LowerLetters ==
    <<"a", "b", "c", "d", "e", "f", "g", "h", "i", "j", "k", "l", "m",
      "n", "o", "p", "q", "r", "s", "t", "u", "v", "w", "x", "y", "z">>

IsUpper(ch) == \E k \in DOMAIN UpperLetters : UpperLetters[k] = ch

IsLower(ch) == \E k \in DOMAIN LowerLetters : LowerLetters[k] = ch

\* ch.lower()
ToLower(ch) ==
    IF IsUpper(ch) THEN LowerLetters[CHOOSE k \in DOMAIN UpperLetters : UpperLetters[k] = ch]
    ELSE ch

(***************************************************************************)
(* Extraction: extract_text_from_file                                      *)
(***************************************************************************)
\* os.path.splitext(path)[1], on the characters of the path: the extension
\* starts at the last dot of the last component, unless only dots precede it
SplitExt(chars) ==
    LET sepIndex == IF \E k \in DOMAIN chars : chars[k] = "/"
                    THEN CHOOSE k \in DOMAIN chars :
                             /\ chars[k] = "/"
                             /\ \A j \in DOMAIN chars : chars[j] = "/" => j <= k
                    ELSE 0
        dotIndex == IF \E k \in DOMAIN chars : chars[k] = "."
                    THEN CHOOSE k \in DOMAIN chars :
                             /\ chars[k] = "."
                             /\ \A j \in DOMAIN chars : chars[j] = "." => j <= k
                    ELSE 0
    IN  IF dotIndex > sepIndex /\ \E k \in (sepIndex + 1)..(dotIndex - 1) : chars[k] # "."
        THEN SubSeq(chars, dotIndex, Len(chars))
        ELSE <<>>

\* ext = os.path.splitext(filepath)[1].lower()
ExtOf(filepath) ==
    LET ext == SplitExt(Chars(filepath))
    IN  Str([k \in DOMAIN ext |-> ToLower(ext[k])])

\* the branch of the if/elif chain taken for an extension ("none": the else)
Handler(ext, PyPDF2, docx2txt) ==
    CASE ext = Str(<<".", "p", "d", "f">>) /\ PyPDF2 -> "pdf"
      [] ext = Str(<<".", "t", "x", "t">>) -> "txt"
      [] ext = Str(<<".", "d", "o", "c", "x">>) /\ docx2txt -> "docx"
      [] ext = Str(<<".", "c", "s", "v">>) -> "csv"
      [] OTHER -> "none"

\* page.extract_text() or ''   (None is <<>>)
PageText(page) == IF page = <<>> THEN <<>> ELSE page[1]

\* what the branch returns for a file its reader can read
ExtractedText(handler, file) ==
    CASE handler = "pdf" ->
             Join(Rep("\n", 2), [k \in DOMAIN file.pages |-> PageText(file.pages[k])])
      [] handler = "txt" -> file.text
      [] handler = "docx" -> file.doc
      [] handler = "csv" ->
             Join(Rep("\n", 1),
                  [k \in DOMAIN file.rows |-> Join(Lit(", ", 2), file.rows[k])])

\* The paths a caller may pass.
Paths ==
    { Str(<<"a", ".", "p", "d", "f">>),
      Str(<<"a", ".", "P", "D", "F">>),
      Str(<<"a", ".", "t", "x", "t">>),
      Str(<<"a", ".", "d", "o", "c", "x">>),
      Str(<<"a", ".", "c", "s", "v">>),
      Str(<<"a", ".", "m", "d">>),
      Str(<<"a">>),
      Str(<<".", "t", "x", "t">>),
      Str(<<"a", ".", "t", "x", "t", ".", "g", "z">>),
      Str(<<"d", ".", "t", "x", "t", "/", "a">>) }

\* The files that may lie at the path, each given by what the readers make of
\* it: f.read(), the pages' extract_text() (None for a page without text),
\* docx2txt.process() and the rows of csv.reader. The first cannot be opened.
Files ==
    { [readable |-> FALSE, text |-> <<>>, pages |-> <<>>, doc |-> <<>>, rows |-> <<>>],
      [readable |-> TRUE, text |-> <<>>, pages |-> <<>>, doc |-> <<>>, rows |-> <<>>],
      [readable |-> TRUE, text |-> Rep("n", 4),
       pages |-> << <<Rep("p", 3)>>, <<>>, <<Rep("r", 2)>> >>,
       doc |-> Rep("d", 5),
       rows |-> << <<Rep("a", 1), Rep("b", 1)>>, <<Rep("c", 1)>> >>] }

\* the branch's reader returns: extract_text_from_file returns the text
ExtractOk ==
    LET handler == Handler(ExtOf(ex.filepath), ex.PyPDF2, ex.docx2txt)
    IN  /\ ex.pc = "idle"
        /\ handler # "none"
        /\ ex.file.readable
        /\ ex' = [ex EXCEPT !.pc = "returned", !.out = ExtractedText(handler, ex.file)]
        /\ UNCHANGED exceptExtract

\* open() or the branch's reader raises: the except clause prints and returns ""
ExtractReadFail ==
    /\ ex.pc = "idle"
    /\ Handler(ExtOf(ex.filepath), ex.PyPDF2, ex.docx2txt) # "none"
    /\ ex' = [ex EXCEPT !.pc = "returned", !.printed = "Extraction failed", !.out = <<>>]
    /\ UNCHANGED exceptExtract

\* the else branch raises ValueError inside the try: the except clause catches
\* it, prints and returns ""
ExtractUnsupported ==
    /\ ex.pc = "idle"
    /\ Handler(ExtOf(ex.filepath), ex.PyPDF2, ex.docx2txt) = "none"
    /\ ex' = [ex EXCEPT !.pc = "returned", !.printed = "Extraction failed", !.out = <<>>]
    /\ UNCHANGED exceptExtract

InitExtract ==
    /\ clock \in ClockStarts
    /\ tzOffset = 0
    /\ index = <<>>
    /\ workload = [c \in Callers |-> "none"]
    /\ call = [c \in Callers |-> IdleFrame]
    /\ requests = [c \in Callers |-> <<>>]
    /\ PINECONE_NEW = TRUE
    /\ sim = <<>>
    /\ rag = RagIdle
    /\ bc = BcIdle
    /\ sq = SqIdle
    /\ ct = CtIdle
    /\ \E filepath \in Paths, pdf \in BOOLEAN, docx \in BOOLEAN, file \in Files :
          ex = [ExIdle EXCEPT !.filepath = filepath, !.PyPDF2 = pdf, !.docx2txt = docx,
                              !.file = file]

NextExtract ==
    \/ ExtractOk
    \/ ExtractReadFail
    \/ ExtractUnsupported

SpecExtract == InitExtract /\ [][NextExtract]_vars

CallsOf(kind) == { n \in DOMAIN rag.calls : rag.calls[n].kind = kind }

\* C13: when the embedding request, the index query or the completion request
\* fails during answer, the failure leaves answer: the call ends raised with no
\* answer text, the failed request is the last one it issued, and after a failed
\* embedding or index query no completion request is issued.
C13_FailurePropagates ==
    \A n \in DOMAIN rag.calls :
        (rag.op = "answer" /\ ~rag.calls[n].ok) =>
            /\ rag.pc = "raised"
            /\ rag.result = <<>>
            /\ n = Len(rag.calls)
            /\ rag.calls[n].kind \in {"embed", "query"} => CallsOf("complete") = {}

\* the index query of an answer call failed, over an index that held a strong match
C13_Witness ==
    /\ rag.op = "answer"
    /\ rag.pc = "raised"
    /\ Len(rag.calls) = 2
    /\ rag.calls[2].kind = "query"
    /\ \E id \in DOMAIN index : sim[id] >= 250

\* C14: an answer call that returns has issued one embedding request, then one
\* index query, then one completion request, each of which succeeded; and at no
\* time has an answer call issued a request of one kind twice.
C14_OneRequestOfEachKind ==
    rag.op = "answer" =>
        /\ \A kind \in {"embed", "query", "complete"} : Cardinality(CallsOf(kind)) <= 1
        /\ rag.pc = "done" =>
              /\ [n \in DOMAIN rag.calls |-> rag.calls[n].kind]
                     = <<"embed", "query", "complete">>
              /\ \A n \in DOMAIN rag.calls : rag.calls[n].ok

\* an answer call returned on the grounded path
C14_Witness ==
    /\ rag.op = "answer"
    /\ rag.pc = "done"
    /\ rag.built = 1
    /\ Len(rag.calls) = 3
    /\ Contains(rag.calls[3].request.user, Lit("\n\nContext:\n", 11))

(***************************************************************************)
(* Chunking: chunk_by_topic                                                *)
(***************************************************************************)
\* the characters in the runs a..e of s
RECURSIVE RunTotal(_, _, _)
RunTotal(s, a, e) == IF a > e THEN 0 ELSE s[a].n + RunTotal(s, a + 1, e)

\* s with adjacent runs of one character merged
Norm(s) ==
    LET isStart(j) == j = 1 \/ s[j].c # s[j - 1].c
        starts == SelectSeq([j \in DOMAIN s |-> j], isStart)
    IN  [k \in DOMAIN starts |->
            Run(s[starts[k]].c,
                RunTotal(s, starts[k],
                         IF k < Len(starts) THEN starts[k + 1] - 1 ELSE Len(s)))]

\* re.sub(r'\r\n|\r', '\n', text): every "\r" becomes "\n", and a "\n" right
\* after a "\r" goes with it
NormalizeNewlines(text) ==
    LET mapped == [j \in DOMAIN text |->
                      IF text[j].c = "\r" THEN Run("\n", text[j].n)
                      ELSE IF text[j].c = "\n" /\ j > 1 /\ text[j - 1].c = "\r"
                           THEN Run("\n", text[j].n - 1)
                           ELSE text[j]]
        kept(r) == r.n > 0
    IN  Norm(SelectSeq(mapped, kept))

\* the pieces of s.split('\n\n') from the k-th run of two or more newlines on:
\* a run of n newlines holds n \div 2 separators, read left to right, and leaves
\* n % 2 newlines to the piece after it
RECURSIVE SplitAfter(_, _, _)
SplitAfter(s, breaks, k) ==
    IF k > Len(breaks) THEN <<>>
    ELSE LET n == s[breaks[k]].n
             to == IF k = Len(breaks) THEN Len(s) ELSE breaks[k + 1] - 1
         IN  [j \in 1..((n \div 2) - 1) |-> <<>>]
                 \o << Rep("\n", n % 2) \o SubSeq(s, breaks[k] + 1, to) >>
                 \o SplitAfter(s, breaks, k + 1)

\* s.split('\n\n'), for an s with no two adjacent runs of one character
SplitBlank(s) ==
    LET isBreak(j) == s[j].c = "\n" /\ s[j].n >= 2
        breaks == SelectSeq([j \in DOMAIN s |-> j], isBreak)
    IN  << SubSeq(s, 1, IF breaks = <<>> THEN Len(s) ELSE breaks[1] - 1) >>
            \o SplitAfter(s, breaks, 1)

\* [p.strip() for p in text.split('\n\n') if p.strip()], after the newlines
\* are normalised
Paragraphs(text) ==
    LET pieces == SplitBlank(NormalizeNewlines(text))
        nonBlank(p) == p # <<>>
    IN  SelectSeq([k \in DOMAIN pieces |-> Strip(pieces[k])], nonBlank)

\* [A-Z] under re.IGNORECASE
IsLetter(ch) == IsUpper(ch) \/ IsLower(ch)

\* ^#{1,3}\s+
MarkdownHeading(para) ==
    /\ Len(para) >= 2
    /\ para[1].c = "#"
    /\ para[1].n <= 3
    /\ para[2].c \in Whitespace

\* ^Chapter\s+\d+ and ^Section\s+\d+ under re.IGNORECASE (what may follow the
\* digits is optional)
NumberedHeading(para, word) ==
    /\ StrLen(para) > Len(word)
    /\ \A j \in DOMAIN word : ToLower(CharAt(para, j)) = word[j]
    /\ LET rest == StrDrop(para, Len(word))
       IN  /\ rest[1].c \in Whitespace
           /\ LStrip(rest) # <<>>
           /\ IsDigit(LStrip(rest)[1].c)

\* ^[A-Z][A-Z\s]{5,50}:? under re.IGNORECASE: match() asks for no more than a
\* prefix, so five more characters after the first letter are enough
CapsHeading(para) ==
    /\ StrLen(para) >= 6
    /\ IsLetter(CharAt(para, 1))
    /\ \A j \in 2..6 : IsLetter(CharAt(para, j)) \/ CharAt(para, j) \in Whitespace

\* heading_pattern.match(para)
IsHeading(para) ==
    \/ MarkdownHeading(para)
    \/ NumberedHeading(para, <<"c", "h", "a", "p", "t", "e", "r">>)
    \/ NumberedHeading(para, <<"s", "e", "c", "t", "i", "o", "n">>)
    \/ CapsHeading(para)

\* re.sub(r'^[#:\-\s]+', '', para)
RECURSIVE StripHeadingMarks(_)
StripHeadingMarks(para) ==
    IF para # <<>> /\ para[1].c \in ({"#", ":", "-"} \cup Whitespace)
    THEN StripHeadingMarks(Tail(para))
    ELSE para

\* re.sub(r'^[#:\-\s]+', '', para).strip() or "Untitled"
HeadingTitle(para) ==
    LET title == Strip(StripHeadingMarks(para))
    IN  IF title = <<>> THEN Str(<<"U", "n", "t", "i", "t", "l", "e", "d">>) ELSE title

\* {'title': current_title, 'content': '\n\n'.join(current_content)}
ChunkOf(title, content) == [title |-> title, content |-> Join(Rep("\n", 2), content)]

\* a faulty variant: the paragraphs of a chunk are joined by a single newline
RECURSIVE ChunkLoopSingleNewline(_, _, _, _)
ChunkLoopSingleNewline(paras, chunks, title, content) ==
    LET flushed == IF content # <<>>
                   THEN Append(chunks, [title |-> title,
                                        content |-> Join(Rep("\n", 1), content)])
                   ELSE chunks
    IN  IF paras = <<>> THEN flushed
        ELSE IF IsHeading(paras[1])
             THEN ChunkLoopSingleNewline(Tail(paras), flushed, HeadingTitle(paras[1]),
                                         <<paras[1]>>)
             ELSE ChunkLoopSingleNewline(Tail(paras), chunks, title,
                                         Append(content, paras[1]))

\* a faulty variant: a heading gives the new chunk its title only, and is left
\* out of the chunk's content
RECURSIVE ChunkLoopHeadingDropped(_, _, _, _)
ChunkLoopHeadingDropped(paras, chunks, title, content) ==
    LET flushed == IF content # <<>> THEN Append(chunks, ChunkOf(title, content))
                   ELSE chunks
    IN  IF paras = <<>> THEN flushed
        ELSE IF IsHeading(paras[1])
             THEN ChunkLoopHeadingDropped(Tail(paras), flushed, HeadingTitle(paras[1]), <<>>)
             ELSE ChunkLoopHeadingDropped(Tail(paras), chunks, title,
                                          Append(content, paras[1]))

\* a faulty variant: a heading closes the current chunk even when it is empty
RECURSIVE ChunkLoopAlwaysFlush(_, _, _, _)
ChunkLoopAlwaysFlush(paras, chunks, title, content) ==
    IF paras = <<>>
    THEN IF content # <<>> THEN Append(chunks, ChunkOf(title, content)) ELSE chunks
    ELSE IF IsHeading(paras[1])
         THEN ChunkLoopAlwaysFlush(Tail(paras), Append(chunks, ChunkOf(title, content)),
                                   HeadingTitle(paras[1]), <<paras[1]>>)
         ELSE ChunkLoopAlwaysFlush(Tail(paras), chunks, title, Append(content, paras[1]))

\* the loop over the paragraphs and the closing of the last chunk, from the
\* paragraphs still to read, the chunks made, current_title and current_content
RECURSIVE ChunkLoop(_, _, _, _)
ChunkLoop(paras, chunks, title, content) ==
    LET flushed == IF content # <<>> THEN Append(chunks, ChunkOf(title, content))
                   ELSE chunks
    IN  IF paras = <<>> THEN flushed
        ELSE IF IsHeading(paras[1])
             THEN ChunkLoop(Tail(paras), flushed, HeadingTitle(paras[1]), <<paras[1]>>)
             ELSE ChunkLoop(Tail(paras), chunks, title, Append(content, paras[1]))

ChunkByTopic(text) ==
    ChunkLoop(Paragraphs(text), <<>>, Str(<<"G", "e", "n", "e", "r", "a", "l">>), <<>>)

\* The pieces a text is made of: a markdown heading, a sentence in mixed case, a
\* line in capitals with a colon, two pieces that begin with no six letters or
\* blanks, a numbered section, and a piece of blanks.
PiecePool ==
    { Str(<<"#", " ", "I", "n", "t", "r", "o">>),
      Str(<<"S", "o", "m", "e", " ", "m", "o", "r", "e", " ", "t", "e", "x", "t", ".">>),
      Str(<<"I", "N", "T", "R", "O", "D", "U", "C", "T", "I", "O", "N", ":">>),
      Str(<<"H", "i", ".", " ", "t", "h", "e", "r", "e">>),
      Str(<<"o", "k", ".">>),
      Str(<<"S", "e", "c", "t", "i", "o", "n", " ", "2">>),
      Str(<<" ", " ">>) }

\* what stands between two pieces: a blank line, a single newline, and a
\* carriage return followed by "\r\n" and a newline (three line ends)
Separators ==
    { Str(<<"\n", "\n">>), Str(<<"\n">>), Str(<<"\r", "\r", "\n", "\n">>) }

\* pieces[1] + seps[1] + pieces[2] + ... + pieces[n]
RECURSIVE TextOfPieces(_, _)
TextOfPieces(pieces, seps) ==
    IF pieces = <<>> THEN <<>>
    ELSE IF Len(pieces) = 1 THEN pieces[1]
    ELSE Concat(Concat(pieces[1], seps[1]), TextOfPieces(Tail(pieces), Tail(seps)))

\* chunk_by_topic(text) is called and returns
ChunkByTopicCall ==
    /\ ct.pc = "idle"
    /\ ct' = [ct EXCEPT !.pc = "returned", !.chunks = ChunkByTopic(ct.text)]
    /\ UNCHANGED exceptChunk

InitChunk ==
    /\ clock \in ClockStarts
    /\ tzOffset = 0
    /\ index = <<>>
    /\ workload = [c \in Callers |-> "none"]
    /\ call = [c \in Callers |-> IdleFrame]
    /\ requests = [c \in Callers |-> <<>>]
    /\ PINECONE_NEW = TRUE
    /\ sim = <<>>
    /\ rag = RagIdle
    /\ bc = BcIdle
    /\ sq = SqIdle
    /\ ex = ExIdle
    /\ \E n \in 0..MaxPieces :
          \E pieces \in [1..n -> PiecePool], seps \in [1..(n - 1) -> Separators] :
              ct = [CtIdle EXCEPT !.text = TextOfPieces(pieces, seps)]

NextChunk == ChunkByTopicCall

SpecChunk == InitChunk /\ [][NextChunk]_vars

\* C15: for a text with k paragraphs that match the heading pattern,
\* chunk_by_topic returns k or k+1 chunks: k+1 when the text begins with a
\* paragraph that is no heading (content before any heading), k otherwise.
C15_ChunkCountFollowsHeadings ==
    ct.pc = "returned" =>
        LET paras == Paragraphs(ct.text)
            k == Cardinality({ j \in DOMAIN paras : IsHeading(paras[j]) })
            leading == paras # <<>> /\ ~IsHeading(paras[1])
        IN  Len(ct.chunks) = IF leading THEN k + 1 ELSE k

\* a text of a leading paragraph and two headings was cut into three chunks
C15_Witness ==
    /\ ct.pc = "returned"
    /\ Len(Paragraphs(ct.text)) = 3
    /\ ~IsHeading(Paragraphs(ct.text)[1])
    /\ IsHeading(Paragraphs(ct.text)[2])
    /\ IsHeading(Paragraphs(ct.text)[3])
    /\ Len(ct.chunks) = 3

\* C16: for a text with at least one paragraph and no paragraph that matches
\* the heading pattern, chunk_by_topic returns one chunk, titled "General",
\* whose content is the paragraphs in order, joined by a blank line.
C16_NoHeadingGivesGeneral ==
    LET paras == Paragraphs(ct.text)
    IN  (ct.pc = "returned" /\ paras # <<>> /\ \A j \in DOMAIN paras : ~IsHeading(paras[j]))
            => /\ Len(ct.chunks) = 1
               /\ Chars(ct.chunks[1].title) = <<"G", "e", "n", "e", "r", "a", "l">>
               /\ Chars(ct.chunks[1].content)
                     = Join(<<"\n", "\n">>, [j \in DOMAIN paras |-> Chars(paras[j])])

\* a text of three different paragraphs, none a heading, came back as one chunk
C16_Witness ==
    /\ ct.pc = "returned"
    /\ Len(Paragraphs(ct.text)) = 3
    /\ Paragraphs(ct.text)[1] # Paragraphs(ct.text)[2]
    /\ Paragraphs(ct.text)[2] # Paragraphs(ct.text)[3]
    /\ \A j \in 1..3 : ~IsHeading(Paragraphs(ct.text)[j])
    /\ Len(ct.chunks) = 1

\* a line of 6 to 50 characters, all of them capital letters or spaces, but for
\* a colon that may end it
CapitalsLine(para) ==
    LET n == StrLen(para)
        body == IF CharAt(para, n) = ":" THEN n - 1 ELSE n
    IN  /\ n \in 6..50
        /\ \A j \in 1..body : IsUpper(CharAt(para, j)) \/ CharAt(para, j) = " "

\* C19: a paragraph without a '#' prefix and without a 'Chapter N'/'Section N'
\* prefix is treated as a heading (it opens a chunk of its own, titled after it)
\* only if it is a line of 6 to 50 capital letters and spaces with an optional
\* trailing colon; a sentence in lower or mixed case stays in the current chunk.
C19_OnlyCapitalsLinesAreHeadings ==
    ct.pc = "returned" =>
        \A c \in DOMAIN ct.chunks :
            LET first == SplitBlank(ct.chunks[c].content)[1]
                opened == c > 1 \/ Chars(ct.chunks[c].title) # <<"G", "e", "n", "e", "r", "a", "l">>
            IN  (/\ opened
                 /\ first[1].c # "#"
                 /\ ~NumberedHeading(first, <<"c", "h", "a", "p", "t", "e", "r">>)
                 /\ ~NumberedHeading(first, <<"s", "e", "c", "t", "i", "o", "n">>))
                    => CapitalsLine(first)

\* the list ms without its j-th match
WithoutMatch(ms, j) == SubSeq(ms, 1, j - 1) \o SubSeq(ms, j + 1, Len(ms))

\* the positions in ms of the matches with the lowest score
LowestScored(ms) ==
    { j \in DOMAIN ms : \A k \in DOMAIN ms : ms[j].score <= ms[k].score }

\* C17 as stated: removing a lowest-scored match from the input of build_context
\* gives an output no longer than the output for the full list.
C17_RemovingLowestNeverGrows ==
    bc.pc = "returned" =>
        \A j \in LowestScored(bc.matches) :
            StrLen(BuildContext(WithoutMatch(bc.matches, j))) <= StrLen(bc.out)

\* C17 as amended: removing the match that ranks last (the lowest score and,
\* among the matches of that score, the latest in the input) gives an output no
\* longer than the output for the full list.
C17_RemovingLastRankedNeverGrows ==
    (bc.pc = "returned" /\ bc.matches # <<>>) =>
        LET last == CHOOSE j \in LowestScored(bc.matches) :
                        \A k \in LowestScored(bc.matches) : k <= j
        IN  StrLen(BuildContext(WithoutMatch(bc.matches, last))) <= StrLen(bc.out)

\* build_context returned a context for a list whose two lowest matches have the
\* same score, and without the later of them the context is shorter
C17_Witness ==
    /\ bc.pc = "returned"
    /\ Cardinality(LowestScored(bc.matches)) = 2
    /\ Len(bc.matches) \in LowestScored(bc.matches)
    /\ StrLen(BuildContext(WithoutMatch(bc.matches, Len(bc.matches)))) < StrLen(bc.out)

\* t is the beginning of s (both with no two adjacent runs of one character)
IsPrefixOf(t, s) ==
    \/ t = <<>>
    \/ /\ Len(t) <= Len(s)
       /\ \A j \in 1..(Len(t) - 1) : t[j] = s[j]
       /\ t[Len(t)].c = s[Len(t)].c
       /\ t[Len(t)].n <= s[Len(t)].n

\* C18: for every chunk upserted, the text stored in the record's metadata is
\* the chunk's content when the content is shorter than 10000 characters, and
\* is the first 10000 characters of the content when it is longer.
C18_StoredTextIsContentCutAt10000 ==
    \A c \in Callers : \A n \in Written(c) :
        LET content == call[c].chunks[requests[c][n].i + 1].content
            id == requests[c][n].id
        IN  /\ id \in DOMAIN index
            /\ index[id].text = requests[c][n].meta.text
            /\ StrLen(content) < 10000 => index[id].text = content
            /\ StrLen(content) > 10000 =>
                  /\ StrLen(index[id].text) = 10000
                  /\ IsPrefixOf(index[id].text, content)

\* a call has written a record for a chunk of 10001 characters and a record for
\* a chunk of 2 characters
C18_Witness ==
    \E c \in Callers :
        /\ call[c].pc = "done"
        /\ \E n \in Written(c) :
              /\ StrLen(call[c].chunks[requests[c][n].i + 1].content) = 10001
              /\ StrLen(index[requests[c][n].id].text) = 10000
        /\ \E n \in Written(c) :
              /\ StrLen(call[c].chunks[requests[c][n].i + 1].content) = 2
              /\ StrLen(index[requests[c][n].id].text) = 2

\* the formatted chunks of the first m of the ranked matches, those without
\* text left out
ChunksOfPrefix(ranked, m) ==
    LET hasText(chunk) == chunk # <<>>
    IN  SelectSeq([a \in 1..m |-> IF ranked[a].metadata.text = <<>> THEN <<>>
                                  ELSE FormatChunk(a, ranked[a])], hasText)

\* C20: the output of build_context is made of the chunks of a prefix of the
\* matches ranked by falling score, matches of equal score in their input order;
\* the prefix ends at the first match whose chunk would take the characters
\* packed past the budget, and no match after that one is included.
C20_PacksAPrefixInOrder ==
    bc.pc = "returned" =>
        LET ms == bc.matches
            n == Len(ms)
            order == CHOOSE p \in [1..n -> 1..n] :
                         \A a, b \in 1..n :
                             a < b => \/ ms[p[a]].score > ms[p[b]].score
                                      \/ /\ ms[p[a]].score = ms[p[b]].score
                                         /\ p[a] < p[b]
            ranked == [a \in 1..n |-> ms[order[a]]]
        IN  \E m \in 0..n :
                /\ bc.out = Join(Lit("\n", 1), ChunksOfPrefix(ranked, m))
                /\ m < n =>
                      /\ ranked[m + 1].metadata.text # <<>>
                      /\ StrLen(Join(<<>>, ChunksOfPrefix(ranked, m)))
                             + StrLen(FormatChunk(m + 1, ranked[m + 1])) > 7000

\* build_context returned a short context that leaves out a match with a text
\* of one character, which would have fitted
C20_Witness ==
    /\ bc.pc = "returned"
    /\ bc.out # <<>>
    /\ StrLen(bc.out) < 100
    /\ \E k \in DOMAIN bc.matches :
          /\ StrLen(bc.matches[k].metadata.text) = 1
          /\ ~Contains(bc.out, bc.matches[k].metadata.text)

\* C21: for every style value, the generation parameters of the completion
\* request agree with its style instruction: temperature 0.4 and at most 300
\* tokens exactly when the instruction is the concise one, temperature 0.7 and
\* at most 800 tokens exactly when it is the detailed one.
C21_ParametersAgreeWithStyle ==
    rag.request # <<>> =>
        /\ rag.request.style_instr = "Keep answer concise."
              <=> (rag.request.temperature = 4 /\ rag.request.max_tokens = 300)
        /\ rag.request.style_instr = "Provide detailed explanation with examples."
              <=> (rag.request.temperature = 7 /\ rag.request.max_tokens = 800)

\* C22: chunk_by_topic cuts the paragraphs into chunks without loss: every
\* chunk has content, and the contents of the chunks, joined in order by a blank
\* line, are the text's non-empty paragraphs in their order joined by a blank
\* line.
C22_ChunksPartitionParagraphs ==
    ct.pc = "returned" =>
        LET paras == Paragraphs(ct.text)
        IN  /\ \A c \in DOMAIN ct.chunks : StrLen(ct.chunks[c].content) > 0
            /\ Join(<<"\n", "\n">>, [c \in DOMAIN ct.chunks |-> Chars(ct.chunks[c].content)])
                  = Join(<<"\n", "\n">>, [j \in DOMAIN paras |-> Chars(paras[j])])

\* a text of three different paragraphs was cut into two chunks
C22_Witness ==
    /\ ct.pc = "returned"
    /\ Len(Paragraphs(ct.text)) = 3
    /\ Cardinality({ Paragraphs(ct.text)[j] : j \in 1..3 }) = 3
    /\ Len(ct.chunks) = 2

====
